---- MODULE Spec2Model ----
(***************************************************************************)
(* The offline cache service worker of the Leeward Point guestbook         *)
(* (src/service-worker.js, the version with CACHE_NAME                     *)
(* 'leeward-point-cache-v11'): the install, activate and fetch handlers,   *)
(* the tile-URL generation that feeds install, and the platform objects    *)
(* the handlers act on (CacheStorage, Cache, fetch, Response, Blob).       *)
(*                                                                         *)
(* A URL is a sequence of string tokens, so that matching a URL against a  *)
(* pattern is a search over its parts.  A latitude or longitude is an      *)
(* integer number of hundredths of a degree.  A Response is a record of    *)
(* its status, its content type and its body, the body being a sequence   *)
(* of bytes.                                                               *)
(***************************************************************************)
EXTENDS Integers, Sequences, FiniteSets, TLC

(***************************************************************************)
(* Bounds of the model.                                                    *)
(***************************************************************************)
\* how many entries of the PRECACHE_URLS list the model installs
NStatic == 2
\* the zoom level in OFFLINE_TILE_BOUNDS.zoomLevels (12 in the source; the
\* bounding box covers one tile up to zoom 6 and 992 tiles at zoom 12)
ModelZoom == 5
\* the network serves bodies <<1>> .. <<MaxBody>>: the content behind a URL
\* is body 1 while the worker installs and may be any of them afterwards
MaxBody == 2
\* how many fetch events the worker handles at the same time
MaxEvents == 2
\* generateTileUrls and latLonToTile are explored at the zooms 0..MaxTileZoom
MaxTileZoom == 2
\* how many topics the subcategory of the site data has
NTopics == 2

(***************************************************************************)
(* Constants of the program.                                               *)
(***************************************************************************)
CACHE_NAME == "leeward-point-cache-v11"

\* the generations the earlier versions of the worker made
OldGenerations == <<"leeward-point-cache-v1", "leeward-point-cache-v10">>

\* the generation of the version after this one: the cache name is bumped
\* whenever the assets change
NEXT_CACHE_NAME == "leeward-point-cache-v12"

Generations ==
  {OldGenerations[i] : i \in 1..Len(OldGenerations)} \cup {CACHE_NAME, NEXT_CACHE_NAME}

PRECACHE_LIST ==
  << <<"/">>, <<"/index.html">>, <<"/info.html">>, <<"/subcategory.html">>,
     <<"/search.html">>, <<"/map.html">>, <<"/admin.html">>, <<"/style.css">>,
     <<"/script.js">>, <<"/data.json">>, <<"/manifest.json">>,
     <<"/icon-192.png">>, <<"/icon-512.png">>, <<"/hero.png">>,
     <<"/hero-button.png">>, <<"/house-tour.html">>, <<"/howto.html">>,
     <<"/howto-item.html">>, <<"/topic.html">>,
     <<"/images/_incoming/0A740C08-D444-4C26-AC52-D4C65B1C6377.png">>,
     <<"/images/_incoming/0E8D1C7E-E189-4134-A62C-54BEAC462290.png">>,
     <<"/images/_incoming/0EA16F1C-6C3E-4E2A-80A9-3AB6CAE0186D.jpeg">>,
     <<"/images/_incoming/0EE26473-943E-4CA7-922F-7804FBF1A4E5.jpeg">>,
     <<"/images/_incoming/0F831DD5-FF18-4C1B-AF79-6870C1FBF2D.jpeg">>,
     <<"/images/_incoming/1A023195-03C2-45C2-8BC3-EE9A360D5381.jpeg">>,
     <<"/images/local_area/restaurant.png">>, <<"/images/local_area/cafe.png">>,
     <<"/images/local_area/bar_brewery.png">>, <<"/images/local_area/trail.png">>,
     <<"/images/local_area/beach.png">> >>

\* the part of the list the model installs
PRECACHE_URLS == SubSeq(PRECACHE_LIST, 1, NStatic)

OFFLINE_TILE_BOUNDS ==
  [latMin |-> 2918, latMax |-> 3148, lonMin |-> -8298, lonMax |-> -8032,
   zoomLevels |-> <<ModelZoom>>]

Range(s) == {s[i] : i \in 1..Len(s)}

RECURSIVE Pow2(_)
Pow2(k) == IF k = 0 THEN 1 ELSE 2 * Pow2(k - 1)

Min(a, b) == IF a <= b THEN a ELSE b
Max(a, b) == IF a >= b THEN a ELSE b

(***************************************************************************)
(* latLonToTile.  MercatorY(lat) is                                        *)
(*   (1 - Math.log(Math.tan(latRad) + 1 / Math.cos(latRad)) / Math.PI) / 2 *)
(* in units of 2^-24, rounded down, so that the tile row at a zoom of at   *)
(* most 24 is its quotient by 2^(24 - zoom).                               *)
(***************************************************************************)
MercatorY(lat) ==
  CASE lat = -8505 -> 16776606
    [] lat = 0     -> 8388608
    [] lat = 2918  -> 6965810
    [] lat = 3148  -> 6841611
    [] lat = 8505  -> 609

latLonToTile(lat, lon, zoom) ==
  LET n == Pow2(zoom)
      x == ((lon + 18000) * n) \div 36000
      y == MercatorY(lat) \div Pow2(24 - zoom)
  IN  <<x, y>>

\* the template literal of one tile URL
TileUrl(sub, zoom, x, y) ==
  <<"https://", sub, ".tile.openstreetmap.org/", ToString(zoom), "/",
    ToString(x), "/", ToString(y), ".png">>

SubdomainsTwo == <<"a", "b">>

Subdomains == <<"a", "b", "c">>

\* the rows yMin..yMax of column x, three URLs a row
RECURSIVE ColumnUrls(_, _, _, _)
ColumnUrls(zoom, x, y, yMax) ==
  IF y > yMax THEN <<>>
  ELSE [i \in 1..Len(Subdomains) |-> TileUrl(Subdomains[i], zoom, x, y)]
       \o ColumnUrls(zoom, x, y + 1, yMax)

RECURSIVE BoxUrls(_, _, _, _, _)
BoxUrls(zoom, x, xMax, yMin, yMax) ==
  IF x > xMax THEN <<>>
  ELSE ColumnUrls(zoom, x, yMin, yMax) \o BoxUrls(zoom, x + 1, xMax, yMin, yMax)

ZoomUrlsAsGiven(bounds, zoom) ==
  LET lo == latLonToTile(bounds.latMin, bounds.lonMin, zoom)
      hi == latLonToTile(bounds.latMax, bounds.lonMax, zoom)
  IN  BoxUrls(zoom, lo[1], hi[1], hi[2], lo[2])

ZoomUrls(bounds, zoom) ==
  LET lo == latLonToTile(bounds.latMin, bounds.lonMin, zoom)
      hi == latLonToTile(bounds.latMax, bounds.lonMax, zoom)
      xMin == Min(lo[1], hi[1])
      xMax == Max(lo[1], hi[1])
      yMin == Min(hi[2], lo[2])
      yMax == Max(hi[2], lo[2])
  IN  BoxUrls(zoom, xMin, xMax, yMin, yMax)

RECURSIVE LevelUrls(_, _)
LevelUrls(bounds, i) ==
  IF i > Len(bounds.zoomLevels) THEN <<>>
  ELSE ZoomUrls(bounds, bounds.zoomLevels[i]) \o LevelUrls(bounds, i + 1)

generateTileUrls(bounds) == LevelUrls(bounds, 1)

\* a plausible slip: the pattern names one of the three hosts
IsTileRequestHostA(url) ==
  \E i \in 2..Len(url) : url[i - 1] = "a" /\ url[i] = ".tile.openstreetmap.org/"

\* the test /\.tile\.openstreetmap\.org\// of the fetch handler
IsTileRequest(url) == \E i \in 1..Len(url) : url[i] = ".tile.openstreetmap.org/"

(***************************************************************************)
(* Responses.                                                              *)
(***************************************************************************)
\* undefined: no response (a miss of Cache.match, a variable not yet set)
NoResponse == [status |-> -2, type |-> "undefined", body |-> <<>>]

\* a fetch that has not settled
Pending == [status |-> -1, type |-> "pending", body |-> <<>>]

\* a fetch that rejected
NetworkError == [status |-> 0, type |-> "error", body |-> <<>>]

\* what the network answers for url with a status and one of its bodies
NetResponse(url, status, b) ==
  [status |-> status,
   type   |-> IF status = 200 /\ IsTileRequest(url) THEN "image/png" ELSE "text/html",
   body   |-> <<b>>]

\* every way a fetch of url can settle once the worker is active
NetOutcomes(url) ==
  {NetworkError} \cup {NetResponse(url, 200, b) : b \in 1..MaxBody}
                 \cup {NetResponse(url, 404, 1)}

\* every way a fetch of url can settle while the worker installs
InstallOutcomes(url) ==
  {NetworkError, NetResponse(url, 200, 1), NetResponse(url, 404, 1)}

\* Response.ok, which Cache.add and Cache.addAll require
IsOk(resp) == resp.status >= 200 /\ resp.status <= 299

(***************************************************************************)
(* The fallback image of the fetch handler: atob of the embedded base64    *)
(* text, wrapped in a Blob of type image/png, wrapped in a Response.       *)
(***************************************************************************)
FALLBACK_B64 ==
  <<"i", "V", "B", "O", "R", "w", "0", "K", "G", "g", "o", "A", "A", "A", "A", "N", "S",
    "U", "h", "E", "U", "g", "A", "A", "A", "B", "A", "A", "A", "A", "A", "Q", "C", "A",
    "Y", "A", "A", "A", "A", "f", "8", "/", "9", "h", "A", "A", "A", "A", "M", "U", "l",
    "E", "Q", "V", "R", "4", "2", "m", "N", "g", "G", "A", "W", "j", "g", "H", "5", "g",
    "Y", "m", "B", "I", "4", "T", "8", "G", "I", "h", "U", "y", "o", "C", "U", "j", "q",
    "Y", "Y", "G", "x", "B", "m", "U", "B", "k", "R", "s", "T", "A", "l", "g", "F", "Q",
    "c", "A", "z", "i", "0", "A", "U", "A", "F", "h", "C", "N", "A", "O", "D", "L", "Z",
    "n", "A", "A", "A", "A", "A", "E", "l", "F", "T", "k", "S", "u", "Q", "m", "C", "C">>

Base64Alphabet ==
  <<"A", "B", "C", "D", "E", "F", "G", "H", "I", "J", "K", "L", "M", "N", "O", "P",
    "Q", "R", "S", "T", "U", "V", "W", "X", "Y", "Z", "a", "b", "c", "d", "e", "f",
    "g", "h", "i", "j", "k", "l", "m", "n", "o", "p", "q", "r", "s", "t", "u", "v",
    "w", "x", "y", "z", "0", "1", "2", "3", "4", "5", "6", "7", "8", "9", "+", "/">>

Sextet(c) == (CHOOSE i \in 1..64 : Base64Alphabet[i] = c) - 1

\* atob: every four characters give three code units, each in 0..255; the
\* result is a binary string, one code unit a byte of the decoded data
RECURSIVE atob(_)
atob(s) ==
  IF Len(s) < 4 THEN <<>>
  ELSE LET v == Sextet(s[1]) * 262144 + Sextet(s[2]) * 4096
                + Sextet(s[3]) * 64 + Sextet(s[4])
       IN  <<v \div 65536, (v \div 256) % 256, v % 256>> \o atob(SubSeq(s, 5, Len(s)))

\* a string part of a Blob is stored as the UTF-8 encoding of the string:
\* a code unit below 128 is one byte, one in 128..255 is two bytes
RECURSIVE Utf8Encode(_)
Utf8Encode(str) ==
  IF str = <<>> THEN <<>>
  ELSE (IF str[1] < 128 THEN <<str[1]>>
        ELSE <<192 + (str[1] \div 64), 128 + (str[1] % 64)>>)
       \o Utf8Encode(Tail(str))

\* new Blob([str], {type}): the bytes and the type of the blob
Blob(str, type) == [bytes |-> Utf8Encode(str), type |-> type]

\* new Response(blob): status 200, the blob's type and bytes
BlobResponse(blob) == [status |-> 200, type |-> blob.type, body |-> blob.bytes]

FallbackResponse == BlobResponse(Blob(atob(FALLBACK_B64), "image/png"))

\* the bytes of the embedded image: what the base64 text encodes
FallbackPng == atob(FALLBACK_B64)

(***************************************************************************)
(* The state.                                                              *)
(***************************************************************************)
VARIABLES
  cacheKeys,      \* caches.keys(): the names of the generations, oldest first
  store,          \* store[g]: the entries of generation g, a function from
                  \* the keys it holds to the responses stored under them
  swState,        \* the worker: parsed, installing, installed, activating,
                  \* activated or redundant
  ipc,            \* the install handler: idle, open, addAll, tiles or done
  addAllFetch,    \* the fetch of each static asset inside cache.addAll
  addAllWrite,    \* the batch write of cache.addAll: none, ok or failed
  tileFetch,      \* the fetch of each tile URL inside its cache.add
  tileAdd,        \* cache.add(url).catch(): none, pending, stored or caught
  installResult,  \* the promise given to waitUntil: none, resolved, rejected
  apc,            \* the activate handler: idle, keys, deleting or done
  keysSeen,       \* the names caches.keys() resolved with
  toDelete,       \* the caches.delete calls that have not settled
  events,         \* the fetch events being handled
  region,         \* the bounds given to generateTileUrls
  gpc,            \* generateTileUrls: idle or returned
  urls,           \* what generateTileUrls returned, <<>> before the call
  tile,           \* the last call of latLonToTile: its arguments and result
  heap,           \* the objects of the page (src/script.js), an object at
                  \* each address 1..Len(heap)
  cachedData,     \* _cachedData: the address of the loaded site data, or Null
  draftData,      \* draftData: the address of the draft of the admin, or Null
  currentEdit,    \* currentEdit: what selectEdit was last called for, or Null
  dataRef         \* dataRef of the editor on the page: an address, or Null

vars == <<cacheKeys, store, swState, ipc, addAllFetch, addAllWrite, tileFetch,
          tileAdd, installResult, apc, keysSeen, toDelete, events, region, gpc,
          urls, tile, heap, cachedData, draftData, currentEdit, dataRef>>

geoVars == <<region, gpc, urls, tile>>

adminVars == <<heap, cachedData, draftData, currentEdit, dataRef>>

installVars == <<ipc, addAllFetch, addAllWrite, tileFetch, tileAdd, installResult>>
activateVars == <<apc, keysSeen, toDelete>>

StaticUrls == Range(PRECACHE_URLS)
TileUrls == Range(generateTileUrls(OFFLINE_TILE_BOUNDS))

\* a script of the map page, never precached
LeafletUrl == <<"https://", "unpkg.com", "/leaflet@1.9.4/dist/leaflet.js">>

\* the requests the pages make: a tile of the map, the assets of the shell
\* and a resource outside both
RequestUrls ==
  {generateTileUrls(OFFLINE_TILE_BOUNDS)[1]} \cup StaticUrls \cup {LeafletUrl}

Events == 1..MaxEvents

EmptyCache == <<>>

\* what an earlier version of the worker precached
OldEntries == [u \in StaticUrls |-> [status |-> 200, type |-> "text/html", body |-> <<0>>]]

\* the sequences of old generations that may exist when this version installs
OldKeySeqs ==
  {<<>>} \cup {<<OldGenerations[i]>> : i \in 1..Len(OldGenerations)}
         \cup {OldGenerations}

IdleEvent ==
  [url |-> <<>>, pc |-> "idle", cached |-> NoResponse, net |-> NoResponse,
   netCalls |-> 0, outcome |-> "pending", result |-> NoResponse, put |-> "none"]

\* no call of latLonToTile yet
NoTile == [lat |-> 0, lon |-> 0, zoom |-> 0, x |-> 0, y |-> 0, called |-> FALSE]

\* null and undefined of the page script
Null == 0

\* the page before its script has loaded the site data
AdminInit ==
  /\ heap = <<>>
  /\ cachedData = Null
  /\ draftData = Null
  /\ currentEdit = Null
  /\ dataRef = Null

\* the worker before its install event, the old generations apart
WorkerInit ==
  /\ swState = "parsed"
  /\ ipc = "idle"
  /\ addAllFetch = [u \in StaticUrls |-> NoResponse]
  /\ addAllWrite = "none"
  /\ tileFetch = [u \in TileUrls |-> NoResponse]
  /\ tileAdd = [u \in TileUrls |-> "none"]
  /\ installResult = "none"
  /\ apc = "idle"
  /\ keysSeen = <<>>
  /\ toDelete = {}
  /\ events = [e \in Events |-> IdleEvent]

Init ==
  /\ cacheKeys \in OldKeySeqs
  /\ store = [g \in Generations |->
                IF g \in Range(cacheKeys) THEN OldEntries ELSE EmptyCache]
  /\ WorkerInit
  /\ region = OFFLINE_TILE_BOUNDS
  /\ gpc = "idle"
  /\ urls = <<>>
  /\ tile = NoTile
  /\ AdminInit

(***************************************************************************)
(* CacheStorage and Cache.                                                 *)
(***************************************************************************)
\* caches.open(name): the generation is created, empty, when it does not exist
OpenKeys(keys, name) == IF name \in Range(keys) THEN keys ELSE Append(keys, name)

\* cache.match(request) on one generation
CacheMatch(st, g, url) == IF url \in DOMAIN st[g] THEN st[g][url] ELSE NoResponse

\* caches.match(request): the first generation, oldest first, with an entry
RECURSIVE CachesMatchFrom(_, _, _, _)
CachesMatchFrom(keys, st, url, i) ==
  IF i > Len(keys) THEN NoResponse
  ELSE IF url \in DOMAIN st[keys[i]] THEN st[keys[i]][url]
  ELSE CachesMatchFrom(keys, st, url, i + 1)

CachesMatch(keys, st, url) == CachesMatchFrom(keys, st, url, 1)

\* cache.put(request, response) on one generation
CachePut(st, g, url, resp) == [st EXCEPT ![g] = (url :> resp) @@ st[g]]

\* the batch write of cache.addAll: every response under its URL, at once
CachePutAll(st, g, resps) == [st EXCEPT ![g] = resps @@ st[g]]

\* caches.delete(name)
DeleteKey(keys, name) == SelectSeq(keys, LAMBDA k : k # name)

(***************************************************************************)
(* install                                                                 *)
(***************************************************************************)
\* the install event: waitUntil(caches.open(CACHE_NAME).then(...))
InstallEvent ==
  /\ swState = "parsed"
  /\ swState' = "installing"
  /\ ipc' = "open"
  /\ UNCHANGED <<cacheKeys, store, addAllFetch, addAllWrite, tileFetch, tileAdd,
                 installResult, activateVars, events>>
  /\ UNCHANGED <<geoVars, adminVars>>

\* a plausible slip: the other generations are deleted when the new one is
\* opened at install, not at activate
InstallKeysPurged(keys) == <<CACHE_NAME>>

\* the generations once caches.open(CACHE_NAME) of install has resolved
InstallKeys(keys) == OpenKeys(keys, CACHE_NAME)

\* caches.open resolves; cache.addAll(PRECACHE_URLS) starts a fetch per asset
InstallOpened ==
  /\ ipc = "open"
  /\ cacheKeys' = InstallKeys(cacheKeys)
  /\ addAllFetch' = [u \in StaticUrls |-> Pending]
  /\ ipc' = "addAll"
  /\ UNCHANGED <<store, swState, addAllWrite, tileFetch, tileAdd, installResult,
                 activateVars, events>>
  /\ UNCHANGED <<geoVars, adminVars>>

\* one fetch of cache.addAll settles
AddAllFetchSettle(u) ==
  /\ ipc = "addAll"
  /\ addAllFetch[u] = Pending
  /\ \E r \in InstallOutcomes(u) : addAllFetch' = [addAllFetch EXCEPT ![u] = r]
  /\ UNCHANGED <<cacheKeys, store, swState, ipc, addAllWrite, tileFetch, tileAdd,
                 installResult, activateVars, events>>
  /\ UNCHANGED <<geoVars, adminVars>>

\* a plausible slip: the rejection of addAll is caught, as the tiles' is
AfterAddAllCaught(settled) == "tiles"

\* a plausible slip: cache.addAll is not awaited, so that the tile additions
\* are started however it settles
AfterAddAllNotAwaited(settled) ==
  IF settled \in {"fulfilled", "rejected"} THEN "tiles" ELSE "rejected"

\* await cache.addAll(PRECACHE_URLS) in the async callback: the callback goes
\* on to the tiles when addAll fulfilled, and rejects as addAll rejected
AfterAddAll(settled) == IF settled = "fulfilled" THEN "tiles" ELSE "rejected"

\* a plausible slip: the promise is not given to event.waitUntil, so that
\* the worker is installed however the handler ends
AfterInstallUnwaited(result) == "installed"

\* event.waitUntil(promise): the worker is installed when the promise
\* resolves and discarded when it rejects
AfterInstall(result) == IF result = "resolved" THEN "installed" ELSE "redundant"

\* the callback goes on (a cache.add(url).catch() is started for every tile
\* URL) or its rejection is the result of install
InstallContinue(next) ==
  IF next = "tiles"
    THEN /\ ipc' = "tiles"
         /\ tileFetch' = [u \in TileUrls |-> Pending]
         /\ tileAdd' = [u \in TileUrls |-> "pending"]
         /\ UNCHANGED <<installResult, swState>>
    ELSE /\ ipc' = "done"
         /\ installResult' = "rejected"
         /\ swState' = AfterInstall("rejected")
         /\ UNCHANGED <<tileFetch, tileAdd>>

\* a plausible slip: the assets are added one by one, so that those fetched
\* are written although another one failed
AddAllRejectStoreEach(st, fetches) ==
  CachePutAll(st, CACHE_NAME,
              [u \in {v \in DOMAIN fetches : IsOk(fetches[v])} |-> fetches[u]])

\* what cache.addAll leaves in the store when it rejects: nothing of the batch
AddAllRejectStore(st, fetches) == st

\* a fetch of cache.addAll failed or gave a response that is not ok: addAll
\* rejects and nothing is written
AddAllReject ==
  /\ ipc = "addAll"
  /\ \E u \in StaticUrls : addAllFetch[u] # Pending /\ ~IsOk(addAllFetch[u])
  /\ store' = AddAllRejectStore(store, addAllFetch)
  /\ InstallContinue(AfterAddAll("rejected"))
  /\ UNCHANGED <<cacheKeys, addAllFetch, addAllWrite, activateVars, events>>
  /\ UNCHANGED <<geoVars, adminVars>>

\* every fetch of cache.addAll gave an ok response: the batch is written at
\* once and addAll fulfils or, when the write fails, nothing is written and
\* addAll rejects
AddAllWrite(ok) ==
  /\ ipc = "addAll"
  /\ \A u \in StaticUrls : IsOk(addAllFetch[u])
  /\ IF ok
       THEN /\ store' = CachePutAll(store, CACHE_NAME, addAllFetch)
            /\ addAllWrite' = "ok"
            /\ InstallContinue(AfterAddAll("fulfilled"))
       ELSE /\ store' = store
            /\ addAllWrite' = "failed"
            /\ InstallContinue(AfterAddAll("rejected"))
  /\ UNCHANGED <<cacheKeys, addAllFetch, activateVars, events>>
  /\ UNCHANGED <<geoVars, adminVars>>

\* a plausible slip: fetch(url).then(r => cache.put(url, r)), which stores a
\* response that is not ok
TileAddOutcomePut(r, writeOk) ==
  IF r # NetworkError /\ writeOk THEN "stored" ELSE "caught"

\* what cache.add(url).catch(() => {}) leaves of one tile whose fetch
\* settled with r and whose write succeeded or not
TileAddOutcome(r, writeOk) == IF IsOk(r) /\ writeOk THEN "stored" ELSE "caught"

\* one cache.add(url).catch(() => {}) settles
TileAddSettle(u) ==
  /\ ipc = "tiles"
  /\ tileAdd[u] = "pending"
  /\ \E r \in InstallOutcomes(u), writeOk \in BOOLEAN :
       /\ tileFetch' = [tileFetch EXCEPT ![u] = r]
       /\ tileAdd' = [tileAdd EXCEPT ![u] = TileAddOutcome(r, writeOk)]
       /\ store' = IF TileAddOutcome(r, writeOk) = "stored"
                     THEN CachePut(store, CACHE_NAME, u, r)
                     ELSE store
  /\ UNCHANGED <<cacheKeys, swState, ipc, addAllFetch, addAllWrite, installResult,
                 activateVars, events>>
  /\ UNCHANGED <<geoVars, adminVars>>

\* a plausible slip: no .catch() on cache.add, so that a tile that failed
\* rejects Promise.all
TilesJoinNoCatch(adds) ==
  IF \E u \in DOMAIN adds : adds[u] = "caught" THEN "rejected" ELSE "resolved"

\* how Promise.all over the tile promises settles once each has settled:
\* each is cache.add(url).catch(() => {}), which always fulfils
TilesJoin(adds) == "resolved"

\* a plausible slip: Promise.race or Promise.any in place of Promise.all
TilesSettledAny(adds) == \E u \in DOMAIN adds : adds[u] # "pending"

\* when Promise.all over the tile promises settles, none of them rejecting:
\* once every one has settled
TilesSettled(adds) == \A u \in DOMAIN adds : adds[u] # "pending"

\* Promise.all over the tile promises settles: install is over
InstallDone ==
  /\ ipc = "tiles"
  /\ TilesSettled(tileAdd)
  /\ ipc' = "done"
  /\ installResult' = TilesJoin(tileAdd)
  /\ swState' = AfterInstall(TilesJoin(tileAdd))
  /\ UNCHANGED <<cacheKeys, store, addAllFetch, addAllWrite, tileFetch, tileAdd,
                 activateVars, events>>
  /\ UNCHANGED <<geoVars, adminVars>>

\* the runtime installs the worker again after an install that failed
InstallRetry ==
  /\ swState = "redundant"
  /\ swState' = "parsed"
  /\ ipc' = "idle"
  /\ addAllFetch' = [u \in StaticUrls |-> NoResponse]
  /\ addAllWrite' = "none"
  /\ tileFetch' = [u \in TileUrls |-> NoResponse]
  /\ tileAdd' = [u \in TileUrls |-> "none"]
  /\ installResult' = "none"
  /\ UNCHANGED <<cacheKeys, store, activateVars, events>>
  /\ UNCHANGED <<geoVars, adminVars>>

(***************************************************************************)
(* activate                                                                *)
(***************************************************************************)
\* the activate event: waitUntil(caches.keys().then(...)).  The promises of
\* the tile additions of install, settled, are gone by now
ActivateEvent ==
  /\ swState = "installed"
  /\ swState' = "activating"
  /\ apc' = "keys"
  /\ tileFetch' = [u \in TileUrls |-> NoResponse]
  /\ tileAdd' = [u \in TileUrls |-> "none"]
  /\ UNCHANGED <<cacheKeys, store, ipc, addAllFetch, addAllWrite, installResult,
                 keysSeen, toDelete, events>>
  /\ UNCHANGED <<geoVars, adminVars>>

\* a plausible slip: the comparison with CACHE_NAME the wrong way round
StaleKeysInverted(keys) == {k \in Range(keys) : k = CACHE_NAME}

\* the names the handler calls caches.delete for
StaleKeys(keys) == {k \in Range(keys) : k # CACHE_NAME}

\* caches.keys() resolves: a caches.delete(key) is started for every other name
ActivateKeys ==
  /\ apc = "keys"
  /\ keysSeen' = cacheKeys
  /\ toDelete' = StaleKeys(cacheKeys)
  /\ apc' = "deleting"
  /\ UNCHANGED <<cacheKeys, store, swState, installVars, events>>
  /\ UNCHANGED <<geoVars, adminVars>>

\* one caches.delete(key) settles
ActivateDelete(k) ==
  /\ apc = "deleting"
  /\ k \in toDelete
  /\ cacheKeys' = DeleteKey(cacheKeys, k)
  /\ store' = [store EXCEPT ![k] = EmptyCache]
  /\ toDelete' = toDelete \ {k}
  /\ UNCHANGED <<swState, installVars, apc, keysSeen, events>>
  /\ UNCHANGED <<geoVars, adminVars>>

\* Promise.all over the deletions settles: the worker is active
ActivateDone ==
  /\ apc = "deleting"
  /\ toDelete = {}
  /\ apc' = "done"
  /\ swState' = "activated"
  /\ UNCHANGED <<cacheKeys, store, installVars, keysSeen, toDelete, events>>
  /\ UNCHANGED <<geoVars, adminVars>>

(***************************************************************************)
(* fetch                                                                   *)
(***************************************************************************)
\* a fetch event for url: the handler tests the URL and calls
\* caches.open(CACHE_NAME) for a tile, caches.match(request) otherwise
FetchEvent(e, url) ==
  /\ swState = "activated"
  /\ events[e].pc = "idle"
  /\ events' = [events EXCEPT ![e] =
       [IdleEvent EXCEPT !.url = url,
                         !.pc = IF IsTileRequest(url) THEN "open" ELSE "match"]]
  /\ UNCHANGED <<cacheKeys, store, swState, installVars, activateVars>>
  /\ UNCHANGED <<geoVars, adminVars>>

\* tile branch: caches.open(CACHE_NAME) resolves; cache.match(request) is called
TileOpened(e) ==
  /\ events[e].pc = "open"
  /\ cacheKeys' = OpenKeys(cacheKeys, CACHE_NAME)
  /\ events' = [events EXCEPT ![e].pc = "match"]
  /\ UNCHANGED <<store, swState, installVars, activateVars>>
  /\ UNCHANGED <<geoVars, adminVars>>

\* a plausible slip: the network is asked although the tile is cached
TileAfterMatchRevalidate(ev, cached) ==
  [ev EXCEPT !.cached = cached, !.pc = "fetch", !.net = Pending, !.netCalls = @ + 1]

\* what the tile branch does with the result of cache.match: a hit is the
\* response of the event, a miss calls fetch(request)
TileAfterMatch(ev, cached) ==
  IF cached # NoResponse
    THEN [ev EXCEPT !.cached = cached, !.pc = "done",
                    !.outcome = "resolved", !.result = cached]
    ELSE [ev EXCEPT !.pc = "fetch", !.net = Pending, !.netCalls = @ + 1]

\* tile branch: cache.match(request) on the current generation resolves
TileMatched(e) ==
  /\ events[e].pc = "match"
  /\ IsTileRequest(events[e].url)
  /\ events' = [events EXCEPT ![e] =
       TileAfterMatch(events[e], CacheMatch(store, CACHE_NAME, events[e].url))]
  /\ UNCHANGED <<cacheKeys, store, swState, installVars, activateVars>>
  /\ UNCHANGED <<geoVars, adminVars>>

\* a plausible slip: the network response is returned and never written back
TilePutStartedNever(r) == "none"

\* a plausible slip: every network response is written back, whatever its status
TilePutStartedAlways(r) == "pending"

\* the cache.put the tile branch starts for a network response
TilePutStarted(r) == IF r.status = 200 THEN "pending" ELSE "none"

\* a plausible slip: the catch writes the fallback it answers with into the
\* cache, as the response of the tile
TileAfterFetchStoreFallback(ev, r) ==
  IF r # NetworkError
    THEN [ev EXCEPT !.net = r, !.pc = "done", !.outcome = "resolved",
                    !.result = r, !.put = IF r.status = 200 THEN "pending" ELSE "none"]
    ELSE [ev EXCEPT !.net = FallbackResponse, !.pc = "done", !.outcome = "resolved",
                    !.result = FallbackResponse, !.put = "pending"]

\* a plausible slip: when the fetch fails the handler starts over, from the
\* opening of the cache
TileAfterFetchStartOver(ev, r) ==
  IF r # NetworkError
    THEN [ev EXCEPT !.net = r, !.pc = "done", !.outcome = "resolved",
                    !.result = r, !.put = IF r.status = 200 THEN "pending" ELSE "none"]
    ELSE [IdleEvent EXCEPT !.url = ev.url, !.pc = "open"]

\* a plausible slip: the write is awaited before the response is returned
TileAfterFetchAwaitPut(ev, r) ==
  IF r # NetworkError
    THEN IF r.status = 200
           THEN [ev EXCEPT !.net = r, !.pc = "put", !.put = "pending"]
           ELSE [ev EXCEPT !.net = r, !.pc = "done", !.outcome = "resolved",
                           !.result = r]
    ELSE [ev EXCEPT !.net = r, !.pc = "done", !.outcome = "resolved",
                    !.result = FallbackResponse]

\* a plausible slip: a fetch that failed is tried again
TileAfterFetchRetry(ev, r) ==
  IF r # NetworkError
    THEN [ev EXCEPT !.net = r, !.pc = "done", !.outcome = "resolved",
                    !.result = r, !.put = IF r.status = 200 THEN "pending" ELSE "none"]
    ELSE [ev EXCEPT !.pc = "fetch", !.net = Pending, !.netCalls = @ + 1]

\* what the tile branch does when fetch(request) settles with r: a response
\* is returned, and written back when its status is 200; a rejection is
\* caught and the fallback image is returned
TileAfterFetch(ev, r) ==
  IF r # NetworkError
    THEN [ev EXCEPT !.net = r, !.pc = "done", !.outcome = "resolved",
                    !.result = r, !.put = TilePutStarted(r)]
    ELSE [ev EXCEPT !.net = r, !.pc = "done", !.outcome = "resolved",
                    !.result = FallbackResponse]

\* tile branch: fetch(request) settles
TileFetched(e) ==
  /\ events[e].pc = "fetch"
  /\ IsTileRequest(events[e].url)
  /\ \E r \in NetOutcomes(events[e].url) :
       events' = [events EXCEPT ![e] = TileAfterFetch(events[e], r)]
  /\ UNCHANGED <<cacheKeys, store, swState, installVars, activateVars>>
  /\ UNCHANGED <<geoVars, adminVars>>

\* the cache.put(request, response.clone()) nobody awaits settles: the copy
\* is written, or the write fails and the rejection is lost
TilePutSettle(e, ok) ==
  /\ events[e].put = "pending"
  /\ events' = [events EXCEPT ![e].put = IF ok THEN "stored" ELSE "failed"]
  /\ store' = IF ok THEN CachePut(store, CACHE_NAME, events[e].url, events[e].net)
                    ELSE store
  /\ UNCHANGED <<cacheKeys, swState, installVars, activateVars>>
  /\ UNCHANGED <<geoVars, adminVars>>

\* a plausible slip: network first, the cache being used only afterwards
OtherAfterMatchNetworkFirst(ev, cached) ==
  [ev EXCEPT !.cached = cached, !.pc = "fetch", !.net = Pending, !.netCalls = @ + 1]

\* what the other branch does with the result of caches.match: cached || fetch(request)
OtherAfterMatch(ev, cached) ==
  IF cached # NoResponse
    THEN [ev EXCEPT !.cached = cached, !.pc = "done",
                    !.outcome = "resolved", !.result = cached]
    ELSE [ev EXCEPT !.pc = "fetch", !.net = Pending, !.netCalls = @ + 1]

\* other branch: caches.match(request) over every generation resolves
OtherMatched(e) ==
  /\ events[e].pc = "match"
  /\ ~IsTileRequest(events[e].url)
  /\ events' = [events EXCEPT ![e] =
       OtherAfterMatch(events[e], CachesMatch(cacheKeys, store, events[e].url))]
  /\ UNCHANGED <<cacheKeys, store, swState, installVars, activateVars>>
  /\ UNCHANGED <<geoVars, adminVars>>

\* a plausible slip: the other branch answers a failed fetch as the tile
\* branch does, with a response made up in the worker
OtherAfterFetchFallback(ev, r) ==
  IF r # NetworkError
    THEN [ev EXCEPT !.net = r, !.pc = "done", !.outcome = "resolved", !.result = r]
    ELSE [ev EXCEPT !.net = r, !.pc = "done", !.outcome = "resolved",
                    !.result = FallbackResponse]

\* what the other branch does when fetch(request) settles with r: the promise
\* of fetch is the promise of the handler
OtherAfterFetch(ev, r) ==
  IF r # NetworkError
    THEN [ev EXCEPT !.net = r, !.pc = "done", !.outcome = "resolved", !.result = r]
    ELSE [ev EXCEPT !.net = r, !.pc = "done", !.outcome = "rejected"]

\* a plausible slip: the other branch writes back as the tile branch does
OtherStoreWriteBack(st, url, r) ==
  IF r.status = 200 THEN CachePut(st, CACHE_NAME, url, r) ELSE st

\* the write the other branch makes of a network response: none
OtherStore(st, url, r) == st

\* other branch: fetch(request) settles
OtherFetched(e) ==
  /\ events[e].pc = "fetch"
  /\ ~IsTileRequest(events[e].url)
  /\ \E r \in NetOutcomes(events[e].url) :
       /\ events' = [events EXCEPT ![e] = OtherAfterFetch(events[e], r)]
       /\ store' = OtherStore(store, events[e].url, r)
  /\ UNCHANGED <<cacheKeys, swState, installVars, activateVars>>
  /\ UNCHANGED <<geoVars, adminVars>>

\* the page has its answer and the write, if any, has settled: the event is over
EventOver(e) ==
  /\ events[e].pc = "done"
  /\ events[e].put # "pending"
  /\ events' = [events EXCEPT ![e] = IdleEvent]
  /\ UNCHANGED <<cacheKeys, store, swState, installVars, activateVars>>
  /\ UNCHANGED <<geoVars, adminVars>>

\* what the next version of the worker precaches: the assets of this one and
\* one more, as each version so far added assets to the list of the one before
NextEntries ==
  [u \in StaticUrls \cup {LeafletUrl} |-> [status |-> 200, type |-> "text/html", body |-> <<1>>]]

\* the next version of the worker installs while this one is active and
\* serves the pages: its install handler opens its generation and fills it
NextVersionInstall ==
  /\ swState = "activated"
  /\ NEXT_CACHE_NAME \notin Range(cacheKeys)
  /\ cacheKeys' = OpenKeys(cacheKeys, NEXT_CACHE_NAME)
  /\ store' = CachePutAll(store, NEXT_CACHE_NAME, NextEntries)
  /\ UNCHANGED <<swState, installVars, activateVars, events>>
  /\ UNCHANGED <<geoVars, adminVars>>

Next ==
  \/ InstallEvent
  \/ InstallOpened
  \/ \E u \in StaticUrls : AddAllFetchSettle(u)
  \/ AddAllReject
  \/ \E ok \in BOOLEAN : AddAllWrite(ok)
  \/ \E u \in TileUrls : TileAddSettle(u)
  \/ InstallDone
  \/ InstallRetry
  \/ ActivateEvent
  \/ ActivateKeys
  \/ \E k \in Generations : ActivateDelete(k)
  \/ ActivateDone
  \/ \E e \in Events, url \in RequestUrls : FetchEvent(e, url)
  \/ \E e \in Events : TileOpened(e)
  \/ \E e \in Events : TileMatched(e)
  \/ \E e \in Events : TileFetched(e)
  \/ \E e \in Events, ok \in BOOLEAN : TilePutSettle(e, ok)
  \/ \E e \in Events : OtherMatched(e)
  \/ \E e \in Events : OtherFetched(e)
  \/ \E e \in Events : EventOver(e)

Spec == Init /\ [][Next]_vars

\* the worker and the deployment of the version after it
NextUpdate == Next \/ NextVersionInstall

SpecUpdate == Init /\ [][NextUpdate]_vars

(***************************************************************************)
(* generateTileUrls and latLonToTile on their own: the functions are       *)
(* called with the corners and the zoom levels of a region, the worker     *)
(* staying as it is before its install event.                              *)
(***************************************************************************)
\* latitudes in hundredths of a degree: the ends of the range the Mercator
\* projection covers, the equator and the two of OFFLINE_TILE_BOUNDS
Latitudes == {-8505, 0, 2918, 3148, 8505}

\* longitudes in hundredths of a degree: the two ends of [-180, 180], the
\* prime meridian and the two of OFFLINE_TILE_BOUNDS
Longitudes == {-18000, -8298, -8032, 0, 18000}

\* the lists of zoom levels: one level, or two different levels
ZoomLists ==
  {<<z>> : z \in 0..MaxTileZoom}
    \cup {p \in {<<z1, z2>> : z1 \in 0..MaxTileZoom, z2 \in 0..MaxTileZoom} : p[1] # p[2]}

\* the bounds a caller can pass, its corners in either order
Regions ==
  [latMin : Latitudes, latMax : Latitudes, lonMin : Longitudes, lonMax : Longitudes,
   zoomLevels : ZoomLists]

InitTiles ==
  /\ cacheKeys = <<>>
  /\ store = [g \in Generations |-> EmptyCache]
  /\ WorkerInit
  /\ region \in Regions
  /\ gpc = "idle"
  /\ urls = <<>>
  /\ tile = NoTile
  /\ AdminInit

\* generateTileUrls(region)
GenerateTiles ==
  /\ gpc = "idle"
  /\ urls' = generateTileUrls(region)
  /\ gpc' = "returned"
  /\ UNCHANGED <<cacheKeys, store, swState, installVars, activateVars, events,
                 region, tile>>
  /\ UNCHANGED adminVars

\* latLonToTile(lat, lon, zoom)
TileOf(lat, lon, zoom) ==
  /\ ~tile.called
  /\ LET t == latLonToTile(lat, lon, zoom)
     IN  tile' = [lat |-> lat, lon |-> lon, zoom |-> zoom, x |-> t[1], y |-> t[2],
                  called |-> TRUE]
  /\ UNCHANGED <<cacheKeys, store, swState, installVars, activateVars, events,
                 region, gpc, urls>>
  /\ UNCHANGED adminVars

\* the two calls generateTileUrls makes at a zoom level, one a corner
CornerCalls ==
  {<<region.latMin, region.lonMin, z>> : z \in Range(region.zoomLevels)}
    \cup {<<region.latMax, region.lonMax, z>> : z \in Range(region.zoomLevels)}

NextTiles ==
  \/ GenerateTiles
  \/ \E c \in CornerCalls : TileOf(c[1], c[2], c[3])

SpecTiles == InitTiles /\ [][NextTiles]_vars

(***************************************************************************)
(* The worker where every promise of the platform settles: caches.open,    *)
(* cache.match, caches.match, the fetches and the writes of install, and   *)
(* the fetch of a fetch event.  What a promise settles with stays open.    *)
(***************************************************************************)
Settling ==
  /\ WF_vars(InstallOpened)
  /\ \A u \in StaticUrls : WF_vars(AddAllFetchSettle(u))
  /\ WF_vars(AddAllReject \/ \E ok \in BOOLEAN : AddAllWrite(ok))
  /\ \A u \in TileUrls : WF_vars(TileAddSettle(u))
  /\ WF_vars(InstallDone)
  /\ \A e \in Events :
       /\ WF_vars(TileOpened(e))
       /\ WF_vars(TileMatched(e))
       /\ WF_vars(TileFetched(e))
       /\ WF_vars(OtherMatched(e))
       /\ WF_vars(OtherFetched(e))

SpecSettling == Init /\ [][Next]_vars /\ Settling

(***************************************************************************)
(* The admin page of src/script.js: getData, the login handler of          *)
(* loadAdmin, selectEdit with getDataRef, and the input handlers of the    *)
(* editor.  An object of the page lives at an address of the heap and has  *)
(* the properties title, body_md and type and the list kids of the         *)
(* addresses of its children: the categories of the data, the              *)
(* subcategories of a category, the topics of a subcategory.  A JSON text  *)
(* is a value: a record of the same properties whose kids are values.      *)
(***************************************************************************)
\* a property that is not set
Undefined == "<undefined>"

\* what the admin types into a text field, and the map pin types offered
Texts == {"old", "new"}
PinTypes == {"text", "location"}

SiteTopic == [title |-> "old", body_md |-> "old", type |-> "text", kids |-> <<>>]

\* the content of /data.json: one category with one subcategory of topics
SiteData ==
  [title |-> Undefined, body_md |-> Undefined, type |-> Undefined,
   kids |-> << [title |-> "old", body_md |-> Undefined, type |-> Undefined,
                kids |-> << [title |-> "old", body_md |-> Undefined, type |-> Undefined,
                             kids |-> [i \in 1..NTopics |-> SiteTopic]] >>] >>]

\* JSON.stringify of the object at ref: its properties and, in place of the
\* addresses of its children, their texts
RECURSIVE JsonStringify(_, _)
JsonStringify(h, ref) ==
  [title |-> h[ref].title, body_md |-> h[ref].body_md, type |-> h[ref].type,
   kids |-> [i \in 1..Len(h[ref].kids) |-> JsonStringify(h, h[ref].kids[i])]]

\* JSON.parse (and Response.json): a new object for the value and for every
\* value under it, each at a fresh address; the result is the heap with
\* the new objects and the address of the one made for the value
RECURSIVE JsonParse(_, _)
RECURSIVE JsonParseAll(_, _)
JsonParseAll(values, h) ==
  IF values = <<>> THEN [heap |-> h, refs |-> <<>>]
  ELSE LET first == JsonParse(Head(values), h)
           rest  == JsonParseAll(Tail(values), first.heap)
       IN  [heap |-> rest.heap, refs |-> <<first.ref>> \o rest.refs]

JsonParse(value, h) ==
  LET parsed == JsonParseAll(value.kids, h)
      object == [title |-> value.title, body_md |-> value.body_md,
                 type |-> value.type, kids |-> parsed.refs]
  IN  [heap |-> Append(parsed.heap, object), ref |-> Len(parsed.heap) + 1]

\* getData(): the data is fetched and parsed once, and kept in _cachedData
getData ==
  /\ cachedData = Null
  /\ LET loaded == JsonParse(SiteData, heap)
     IN  heap' = loaded.heap /\ cachedData' = loaded.ref
  /\ UNCHANGED <<draftData, currentEdit, dataRef>>
  /\ UNCHANGED <<cacheKeys, store, swState, installVars, activateVars, events>>
  /\ UNCHANGED geoVars

\* a plausible slip: the draft is the loaded data itself
LoginDraftAlias(h, data) == [heap |-> h, ref |-> data]

\* draftData = JSON.parse(JSON.stringify(data))
LoginDraft(h, data) == JsonParse(JsonStringify(h, data), h)

\* the login handler of loadAdmin, the passcode being right: the draft is
\* made and initAdminPanel replaces the login form by the panel
Login ==
  /\ cachedData # Null
  /\ draftData = Null
  /\ LET draft == LoginDraft(heap, cachedData)
     IN  heap' = draft.heap /\ draftData' = draft.ref
  /\ UNCHANGED <<cachedData, currentEdit, dataRef>>
  /\ UNCHANGED <<cacheKeys, store, swState, installVars, activateVars, events>>
  /\ UNCHANGED geoVars

\* an index that is null
NullIndex == Null - 1

\* list?.[index] with index ?? 0: the address at a zero-based index of a
\* list of addresses, Null when there is none
ItemAt(list, index) ==
  LET i == IF index = NullIndex THEN 0 ELSE index
  IN  IF i + 1 \in 1..Len(list) THEN list[i + 1] ELSE Null

getDataRef(h, draft, type, cIndex, sIndex, tIndex) ==
  IF draft = Null THEN Null
  ELSE LET cat == ItemAt(h[draft].kids, cIndex)
       IN  IF cat = Null THEN Null
           ELSE IF type = "category" THEN cat
           ELSE LET sub == ItemAt(h[cat].kids, sIndex)
                IN  IF sub = Null THEN Null
                    ELSE IF type = "subcategory" THEN sub
                    ELSE ItemAt(h[sub].kids, tIndex)

\* selectEdit(type, cIndex, sIndex, tIndex, editor): the editor is emptied
\* and, when the entity exists, filled with fields bound to it
selectEdit(type, cIndex, sIndex, tIndex) ==
  /\ draftData # Null
  /\ currentEdit' = [type |-> type, cIndex |-> cIndex, sIndex |-> sIndex, tIndex |-> tIndex]
  /\ dataRef' = getDataRef(heap, draftData, type, cIndex, sIndex, tIndex)
  /\ UNCHANGED <<heap, cachedData, draftData>>
  /\ UNCHANGED <<cacheKeys, store, swState, installVars, activateVars, events>>
  /\ UNCHANGED geoVars

\* titleInput.oninput: dataRef.title = titleInput.value
EditTitle(value) ==
  /\ dataRef # Null
  /\ heap' = [heap EXCEPT ![dataRef].title = value]
  /\ UNCHANGED <<cachedData, draftData, currentEdit, dataRef>>
  /\ UNCHANGED <<cacheKeys, store, swState, installVars, activateVars, events>>
  /\ UNCHANGED geoVars

\* bodyArea.oninput, a field of the editor of a topic: dataRef.body_md = bodyArea.value
EditBody(value) ==
  /\ dataRef # Null
  /\ currentEdit.type = "topic"
  /\ heap' = [heap EXCEPT ![dataRef].body_md = value]
  /\ UNCHANGED <<cachedData, draftData, currentEdit, dataRef>>
  /\ UNCHANGED <<cacheKeys, store, swState, installVars, activateVars, events>>
  /\ UNCHANGED geoVars

\* typeSelect.onchange, a field of the editor of a topic: dataRef.type = typeSelect.value
EditType(value) ==
  /\ dataRef # Null
  /\ currentEdit.type = "topic"
  /\ heap' = [heap EXCEPT ![dataRef].type = value]
  /\ UNCHANGED <<cachedData, draftData, currentEdit, dataRef>>
  /\ UNCHANGED <<cacheKeys, store, swState, installVars, activateVars, events>>
  /\ UNCHANGED geoVars

\* the calls of selectEdit: those the entries of the sidebar make, for a
\* category, a subcategory or a topic, and, for each kind, one for an
\* entity past the last
SelectCalls ==
  {<<"category", c, NullIndex, NullIndex>> : c \in 0..1}
    \cup {<<"subcategory", 0, s, NullIndex>> : s \in 0..1}
    \cup {<<"topic", 0, 0, t>> : t \in 0..NTopics}

InitAdmin ==
  /\ cacheKeys = <<>>
  /\ store = [g \in Generations |-> EmptyCache]
  /\ WorkerInit
  /\ region = OFFLINE_TILE_BOUNDS
  /\ gpc = "idle"
  /\ urls = <<>>
  /\ tile = NoTile
  /\ AdminInit

NextAdmin ==
  \/ getData
  \/ Login
  \/ \E c \in SelectCalls : selectEdit(c[1], c[2], c[3], c[4])
  \/ \E value \in Texts : EditTitle(value)
  \/ \E value \in Texts : EditBody(value)
  \/ \E value \in PinTypes : EditType(value)

SpecAdmin == InitAdmin /\ [][NextAdmin]_vars

(***************************************************************************)
(* The claims.                                                             *)
(***************************************************************************)
Tile(e) == IsTileRequest(events[e].url)
Done(e) == events[e].pc = "done"
CurrentKeys == DOMAIN store[CACHE_NAME]

\* C1: activate leaves the current generation and its entries alone while it
\* runs, and when it completes the current generation is the only one left:
\* every other generation that existed has been deleted.
C1_ActivateKeepsOnlyCurrent ==
  [][/\ swState = "activating" =>
          /\ store'[CACHE_NAME] = store[CACHE_NAME]
          /\ CACHE_NAME \in Range(cacheKeys')
     /\ swState' = "activated" =>
          /\ Range(cacheKeys') = {CACHE_NAME}
          /\ \A k \in Range(keysSeen') :
               k # CACHE_NAME => k \notin Range(cacheKeys') /\ store'[k] = EmptyCache]_vars

\* activate completed where three generations existed, the current one last
C1_Witness ==
  /\ swState = "activated"
  /\ Len(keysSeen) = 3
  /\ CurrentKeys # {}

\* C2: when cache.match resolves for a tile request whose key the current
\* generation holds, the event is answered with the stored response as it
\* is and no network request has been made for it.
C2_TileHitNoNetwork ==
  [][\A e \in Events :
       (/\ events[e].pc = "match"
        /\ Tile(e)
        /\ events[e].url \in CurrentKeys
        /\ events'[e] # events[e])
       => /\ events'[e].pc = "done"
          /\ events'[e].outcome = "resolved"
          /\ events'[e].result = store[CACHE_NAME][events[e].url]
          /\ events'[e].netCalls = 0]_vars

\* a tile request answered from the store
C2_Witness ==
  \E e \in Events :
    /\ Done(e) /\ Tile(e)
    /\ events[e].cached # NoResponse
    /\ events[e].result = store[CACHE_NAME][events[e].url]
    /\ events[e].netCalls = 0

\* C3: a tile request that misses the store and whose network fetch fails is
\* answered (never rejected) with a response whose body is the bytes of the
\* embedded PNG and whose content type is image/png.
C3_FallbackIsThePng ==
  \A e \in Events :
    (Done(e) /\ Tile(e) /\ events[e].net = NetworkError)
    => /\ events[e].outcome = "resolved"
       /\ events[e].result.type = "image/png"
       /\ events[e].result.body = FallbackPng

\* C4: install succeeds only if every static asset was fetched with an ok
\* response and the batch was written, every asset then being in the current
\* generation; when a static fetch or the write failed, install has failed.
C4_InstallNeedsEveryStatic ==
  /\ installResult = "resolved" =>
       /\ addAllWrite = "ok"
       /\ \A u \in StaticUrls :
            /\ IsOk(addAllFetch[u])
            /\ u \in CurrentKeys
            /\ store[CACHE_NAME][u] = addAllFetch[u]
  /\ (/\ ipc \in {"tiles", "done"}
      /\ \/ addAllWrite = "failed"
         \/ \E u \in StaticUrls : addAllFetch[u] # Pending /\ ~IsOk(addAllFetch[u]))
     => installResult = "rejected"

\* an install that failed on its second static asset, the first being fetched
C4_Witness ==
  /\ installResult = "rejected"
  /\ IsOk(addAllFetch[PRECACHE_URLS[1]])
  /\ addAllFetch[PRECACHE_URLS[2]] = NetworkError

\* C5: once the static batch is written, install never fails: whatever tile
\* additions failed, all of them included, the install that is over succeeded.
C5_TileFailuresNeverFailInstall ==
  (ipc = "done" /\ addAllWrite = "ok") => installResult = "resolved"

\* an install that succeeded with every tile addition failed
C5_Witness ==
  /\ installResult = "resolved"
  /\ \A u \in TileUrls : tileAdd[u] = "caught"

\* C6: after a successful install the current generation holds the N static
\* assets and, besides them, only tiles of the M generated URLs: each tile
\* entry is the ok response its fetch gave, a tile whose fetch failed is
\* absent, and there are at most N + M entries.
C6_StoreAfterInstall ==
  swState = "installed" =>
    /\ StaticUrls \subseteq CurrentKeys
    /\ CurrentKeys \ StaticUrls \subseteq TileUrls
    /\ \A u \in TileUrls :
         /\ u \in CurrentKeys =>
              IsOk(tileFetch[u]) /\ store[CACHE_NAME][u] = tileFetch[u]
         /\ ~IsOk(tileFetch[u]) => u \notin CurrentKeys
         /\ u \in CurrentKeys <=> tileAdd[u] = "stored"
    /\ Cardinality(CurrentKeys) <= Len(PRECACHE_URLS) + Cardinality(TileUrls)

\* a successful install with a tile stored and a tile missing
C6_Witness ==
  /\ swState = "installed"
  /\ \E u, v \in TileUrls : tileAdd[u] = "stored" /\ tileAdd[v] = "caught"
  /\ Cardinality(CurrentKeys) = Len(PRECACHE_URLS) + Cardinality(TileUrls) - 1

\* C7: when install has failed, the current generation holds none of the
\* static assets.
C7_NoPartialShell ==
  installResult = "rejected" => \A u \in StaticUrls : u \notin CurrentKeys

\* an install that failed although one static asset was fetched
C7_Witness ==
  /\ installResult = "rejected"
  /\ CACHE_NAME \in Range(cacheKeys)
  /\ \E u, v \in StaticUrls : IsOk(addAllFetch[u]) /\ addAllFetch[v] = NetworkError

\* C8 as stated: when the handler has answered a tile miss with a network
\* response of status 200, the current generation holds a copy under the key.
C8_StoredWhenAnswered ==
  \A e \in Events :
    (Done(e) /\ Tile(e) /\ events[e].net.status = 200)
    => /\ events[e].result = events[e].net
       /\ CacheMatch(store, CACHE_NAME, events[e].url) = events[e].net

\* C8 amended: a tile miss answered by a network response of status 200 is
\* answered with that response and a write of it is started, not awaited;
\* when the write succeeds the current generation holds the response under
\* the key of the request, and when it fails the store is unchanged.
C8_RefillWriteStarted ==
  [][\A e \in Events :
       /\ (/\ events[e].pc = "fetch" /\ Tile(e)
           /\ events'[e] # events[e]
           /\ events'[e].net.status = 200)
          => /\ events'[e].pc = "done"
             /\ events'[e].outcome = "resolved"
             /\ events'[e].result = events'[e].net
             /\ events'[e].put = "pending"
             /\ store' = store
       /\ (events[e].put = "pending" /\ events'[e].put = "stored")
          => /\ store' = CachePut(store, CACHE_NAME, events[e].url, events[e].result)
             /\ CacheMatch(store', CACHE_NAME, events[e].url) = events[e].result
       /\ (events[e].put = "pending" /\ events'[e].put = "failed")
          => store' = store]_vars

\* a refill whose write succeeded: the store holds what the page was given
C8_Witness ==
  \E e \in Events :
    /\ Done(e) /\ Tile(e)
    /\ events[e].put = "stored"
    /\ events[e].net.status = 200
    /\ CacheMatch(store, CACHE_NAME, events[e].url) = events[e].result

\* C9: no step of the handling of a request that is not a tile request
\* changes a generation or the set of generations, and every entry of the
\* current generation that is not a tile is a static asset as install wrote it.
C9_OtherRequestsNeverWrite ==
  [][/\ \A e \in Events :
          (/\ events'[e] # events[e]
           /\ ~IsTileRequest(IF events[e].pc = "idle" THEN events'[e].url
                                                      ELSE events[e].url))
          => store' = store /\ cacheKeys' = cacheKeys
     /\ \A k \in DOMAIN store'[CACHE_NAME] :
          ~IsTileRequest(k) =>
             k \in StaticUrls /\ store'[CACHE_NAME][k] = addAllFetch'[k]]_vars

\* a request that is not a tile request, missed and answered by the network
C9_Witness ==
  \E e \in Events :
    /\ Done(e) /\ ~Tile(e)
    /\ events[e].net.status = 200
    /\ events[e].url \notin CurrentKeys

\* C10: a request that is not a tile request, is not cached and whose network
\* fetch fails is rejected: no response is made up for it.
C10_OtherFailurePropagates ==
  \A e \in Events :
    (Done(e) /\ ~Tile(e) /\ events[e].net = NetworkError)
    => events[e].outcome = "rejected" /\ events[e].result = NoResponse

\* such a request, rejected
C10_Witness ==
  \E e \in Events :
    /\ Done(e) /\ ~Tile(e)
    /\ events[e].cached = NoResponse
    /\ events[e].net = NetworkError


\* C11: once the worker is active every URL of PRECACHE_URLS is in the
\* current generation, and a request for one is answered, when caches.match
\* resolves, with the response install stored and without a network request:
\* the answer does not depend on the network.
C11_PrecachedServedOffline ==
  [][/\ swState' = "activated" => StaticUrls \subseteq DOMAIN store'[CACHE_NAME]
     /\ \A e \in Events :
          (/\ events[e].pc = "match"
           /\ events[e].url \in StaticUrls
           /\ events'[e] # events[e])
          => /\ events'[e].pc = "done"
             /\ events'[e].outcome = "resolved"
             /\ events'[e].netCalls = 0
             /\ IsOk(events'[e].result)
             /\ events'[e].result = addAllFetch[events[e].url]]_vars

\* the last asset of the list, answered from the cache with no network request
C11_Witness ==
  \E e \in Events :
    /\ Done(e)
    /\ events[e].url = PRECACHE_URLS[Len(PRECACHE_URLS)]
    /\ events[e].outcome = "resolved"
    /\ events[e].netCalls = 0
    /\ events[e].result = store[CACHE_NAME][events[e].url]


\* C12: a request that is not a tile request is answered from the cache only
\* when the current generation holds an entry under its key.
C12_OnlyCurrentGenerationServed ==
  \A e \in Events :
    (Done(e) /\ ~Tile(e) /\ events[e].cached # NoResponse)
    => /\ events[e].url \in CurrentKeys
       /\ events[e].result = store[CACHE_NAME][events[e].url]


(***************************************************************************)
(* The claims about generateTileUrls and latLonToTile, under SpecTiles.    *)
(***************************************************************************)
\* the tiles (x, y) the list names at a zoom level, as the URLs spell them
CoveredTiles(list, zoom) ==
  {<<list[i][6], list[i][8]>> : i \in {j \in 1..Len(list) : list[j][4] = ToString(zoom)}}

\* the tiles of the two corners of a region at a zoom level
CornerA(r, zoom) == latLonToTile(r.latMin, r.lonMin, zoom)
CornerB(r, zoom) == latLonToTile(r.latMax, r.lonMax, zoom)

\* the tiles between the tiles of the two corners, the corners included
Rectangle(r, zoom) ==
  LET a == CornerA(r, zoom)
      b == CornerB(r, zoom)
  IN  {<<x, y>> : x \in Min(a[1], b[1])..Max(a[1], b[1]),
                  y \in Min(a[2], b[2])..Max(a[2], b[2])}

Spelled(tiles) == {<<ToString(t[1]), ToString(t[2])>> : t \in tiles}

Ordered(r) == r.latMin <= r.latMax /\ r.lonMin <= r.lonMax

Swapped(r) ==
  [latMin |-> r.latMax, latMax |-> r.latMin, lonMin |-> r.lonMax, lonMax |-> r.lonMin,
   zoomLevels |-> r.zoomLevels]

\* C13: for a region with latMin <= latMax and lonMin <= lonMax, the coverage
\* at every requested zoom is not empty and is exactly the rectangle of tiles
\* between the tiles of the corners (latMin, lonMin) and (latMax, lonMax), no
\* tile of another zoom is listed, and the region with its two corners
\* swapped gives the same list.
C13_CoverageIsCornerRectangle ==
  (gpc = "returned" /\ Ordered(region))
  => /\ \A z \in Range(region.zoomLevels) :
          /\ CoveredTiles(urls, z) # {}
          /\ CoveredTiles(urls, z) = Spelled(Rectangle(region, z))
     /\ \A i \in 1..Len(urls) :
          \E z \in Range(region.zoomLevels) : urls[i][4] = ToString(z)
     /\ generateTileUrls(Swapped(region)) = urls

\* a region of several tiles in both directions at two zoom levels, covered
C13_Witness ==
  /\ gpc = "returned"
  /\ region.latMin < region.latMax /\ region.lonMin < region.lonMax
  /\ Len(region.zoomLevels) = 2
  /\ \E z \in Range(region.zoomLevels) :
       /\ CornerA(region, z)[1] < CornerB(region, z)[1]
       /\ CornerB(region, z)[2] < CornerA(region, z)[2]
       /\ Cardinality(CoveredTiles(urls, z)) >= 4


\* the number of tiles covered at the zoom levels i.. of the list
RECURSIVE CoverageSize(_, _)
CoverageSize(r, i) ==
  IF i > Len(r.zoomLevels) THEN 0
  ELSE Cardinality(Rectangle(r, r.zoomLevels[i])) + CoverageSize(r, i + 1)

\* C14: the list holds exactly one URL for every covered tile and every
\* subdomain a, b, c: its length is three times the number of covered tiles,
\* and the URL of each pair (tile, subdomain) stands at exactly one place.
C14_OneUrlPerTileAndSubdomain ==
  gpc = "returned"
  => /\ Len(urls) = 3 * CoverageSize(region, 1)
     /\ \A z \in Range(region.zoomLevels) : \A t \in Rectangle(region, z) :
          \A sub \in {"a", "b", "c"} :
            Cardinality({i \in 1..Len(urls) :
                           urls[i] = <<"https://", sub, ".tile.openstreetmap.org/",
                                       ToString(z), "/", ToString(t[1]), "/",
                                       ToString(t[2]), ".png">>}) = 1

\* a list for several tiles at each of two zoom levels
C14_Witness ==
  /\ gpc = "returned"
  /\ Len(region.zoomLevels) = 2
  /\ \A z \in Range(region.zoomLevels) : Cardinality(Rectangle(region, z)) >= 2
  /\ Len(urls) >= 12


\* C15: every tile coordinate latLonToTile returns, and every one the list
\* of generateTileUrls names, has 0 <= x < 2^zoom and 0 <= y < 2^zoom, for
\* a longitude in [-180, 180] and a latitude the projection covers.
C15_TileInRange ==
  /\ tile.called
     => /\ 0 <= tile.x /\ tile.x < Pow2(tile.zoom)
        /\ 0 <= tile.y /\ tile.y < Pow2(tile.zoom)
  /\ gpc = "returned"
     => \A z \in Range(region.zoomLevels) :
          CoveredTiles(urls, z)
            \subseteq Spelled((0..(Pow2(z) - 1)) \X (0..(Pow2(z) - 1)))


(***************************************************************************)
(* The claims about the handlers, continued.                               *)
(***************************************************************************)
\* C17: no retries.  During one install the fetch of a manifest entry, an
\* asset or a tile, is started only when it has not been started before, and
\* a fetch event calls fetch at most once, whatever the fetch settles with:
\* a call is made only by an event that has made none, and the settling of
\* a fetch never starts another.
C17_NoRetries ==
  [][/\ \A u \in StaticUrls :
          (addAllFetch'[u] = Pending /\ addAllFetch[u] # Pending)
          => addAllFetch[u] = NoResponse
     /\ \A u \in TileUrls :
          (tileFetch'[u] = Pending /\ tileFetch[u] # Pending)
          => tileFetch[u] = NoResponse /\ tileAdd[u] = "none"
     /\ \A e \in Events :
          /\ events'[e].netCalls <= 1
          /\ events'[e].netCalls > events[e].netCalls => events[e].netCalls = 0
          /\ (events[e].pc = "fetch" /\ events'[e] # events[e])
             => /\ events'[e].pc = "done"
                /\ events'[e].netCalls = events[e].netCalls]_vars

\* a tile request and another request, each settled after its one fetch
\* failed
C17_Witness ==
  /\ swState = "activated"
  /\ \E e \in Events :
       /\ Done(e) /\ Tile(e)
       /\ events[e].net = NetworkError /\ events[e].netCalls = 1
  /\ \E e \in Events :
       /\ Done(e) /\ ~Tile(e)
       /\ events[e].net = NetworkError /\ events[e].netCalls = 1


\* C18: the tile additions of install are all started together, before any
\* of them is waited for; the settling of one, a failure included, changes
\* no other one, and every one still pending can settle whatever the others
\* did; the promise of install resolves only once every one has settled.
C18_TilesConcurrentAndIsolated ==
  [][/\ (ipc # "tiles" /\ ipc' = "tiles")
        => \A u \in TileUrls : tileFetch'[u] = Pending /\ tileAdd'[u] = "pending"
     /\ (ipc = "tiles" /\ ipc' = "tiles")
        => \A u \in TileUrls :
             tileAdd'[u] # tileAdd[u]
             => /\ tileAdd[u] = "pending"
                /\ tileAdd'[u] \in {"stored", "caught"}
                /\ \A v \in TileUrls \ {u} :
                     tileAdd'[v] = tileAdd[v] /\ tileFetch'[v] = tileFetch[v]
     /\ ipc = "tiles"
        => \A u \in TileUrls : tileAdd[u] = "pending" => ENABLED TileAddSettle(u)
     /\ (installResult = "none" /\ installResult' = "resolved")
        => \A u \in TileUrls : tileAdd[u] \in {"stored", "caught"}]_vars

\* install goes on after a tile fetch failed: a sibling is still pending
\* and another was stored
C18_Witness ==
  /\ ipc = "tiles"
  /\ installResult = "none"
  /\ \E u, v, w \in TileUrls :
       /\ tileAdd[u] = "caught" /\ tileFetch[u] = NetworkError
       /\ tileAdd[v] = "pending" /\ tileFetch[v] = Pending
       /\ tileAdd[w] = "stored"


\* C19: when a tile request missed the store and its fetch gives a response
\* whose status is not 200, the handler answers with that response and
\* starts no write: the store is as it was, holding neither the response
\* nor the fallback image, and the event never writes afterwards.
C19_Non200NotStored ==
  [][\A e \in Events :
       /\ (/\ events[e].pc = "fetch" /\ Tile(e)
           /\ events'[e] # events[e]
           /\ events'[e].net # NetworkError /\ events'[e].net.status # 200)
          => /\ events'[e].pc = "done" /\ events'[e].outcome = "resolved"
             /\ events'[e].result = events'[e].net
             /\ events'[e].put = "none"
             /\ store' = store /\ cacheKeys' = cacheKeys
       /\ (Done(e) /\ Tile(e) /\ events[e].cached = NoResponse
           /\ events[e].net # NetworkError /\ events[e].net.status # 200
           /\ events'[e] # events[e])
          => events'[e] = IdleEvent /\ store' = store]_vars

\* a tile that is not in the store, answered 404 by the network: the page
\* has the 404 and the store has no entry for the tile
C19_Witness ==
  \E e \in Events :
    /\ Done(e) /\ Tile(e)
    /\ events[e].net.status = 404 /\ events[e].result = events[e].net
    /\ events[e].put = "none"
    /\ events[e].url \notin CurrentKeys


\* C20: a tile whose fetch or write failed during install is not in the
\* store after install; a later request for a tile that is not in the store
\* misses and goes to the network, and is answered with the network response,
\* a write of it being started when its status is 200, or, when the network
\* fails, with the fallback image: the embedded PNG, with type image/png.
C20_FailedTileFallsThrough ==
  [][/\ swState' = "installed"
        => \A u \in TileUrls :
             tileAdd'[u] = "caught" => u \notin DOMAIN store'[CACHE_NAME]
     /\ \A e \in Events :
          /\ (/\ events[e].pc = "match" /\ Tile(e)
              /\ events[e].url \notin CurrentKeys
              /\ events'[e] # events[e])
             => /\ events'[e].pc = "fetch"
                /\ events'[e].netCalls = 1
          /\ (events[e].pc = "fetch" /\ Tile(e) /\ events'[e] # events[e])
             => /\ events'[e].pc = "done" /\ events'[e].outcome = "resolved"
                /\ IF events'[e].net # NetworkError
                     THEN /\ events'[e].result = events'[e].net
                          /\ events'[e].net.status = 200 => events'[e].put = "pending"
                     ELSE events'[e].result =
                            [status |-> 200, type |-> "image/png", body |-> FallbackPng]]_vars


\* C21: once the current generation holds an entry for a tile, no step of
\* the handling of fetch events removes the entry or replaces its response,
\* whatever the interleaving of the events handled at the same time.
C21_TileEntryNeverOverwritten ==
  [][swState = "activated"
     => \A u \in CurrentKeys :
          IsTileRequest(u)
          => /\ u \in DOMAIN store'[CACHE_NAME]
             /\ store'[CACHE_NAME][u] = store[CACHE_NAME][u]]_vars


\* C22: a generation other than the current one is deleted only by a step
\* of activate, after an install that succeeded: whenever a generation that
\* activate saw is gone, the current generation holds every static asset of
\* PRECACHE_URLS; no step of an install, and none after an install that
\* failed, removes a generation or an entry of another generation.
C22_DeleteOnlyAfterInstall ==
  [][/\ (Range(cacheKeys) \ Range(cacheKeys') # {})
        => /\ swState = "activating" /\ apc = "deleting"
           /\ installResult = "resolved"
           /\ CACHE_NAME \in Range(cacheKeys')
     /\ (Range(keysSeen') \ Range(cacheKeys') # {})
        => /\ StaticUrls \subseteq DOMAIN store'[CACHE_NAME]
           /\ \A u \in StaticUrls : IsOk(store'[CACHE_NAME][u])
     /\ (swState \in {"parsed", "installing", "redundant"})
        => /\ Range(cacheKeys) \subseteq Range(cacheKeys')
           /\ \A g \in Generations \ {CACHE_NAME} : store'[g] = store[g]]_vars

\* activate in the middle of its deletions: one old generation is gone, the
\* other is still there, and the current generation holds the static assets
C22_Witness ==
  /\ apc = "deleting"
  /\ Range(keysSeen) \ Range(cacheKeys) # {}
  /\ toDelete # {}
  /\ StaticUrls \subseteq CurrentKeys


\* C23: a step of install changes the generation named CACHE_NAME only: the
\* generation is created, last, when it does not exist, entries are added to
\* it and none is taken from it, and every other generation stays, with the
\* entries it has.
C23_InstallTouchesOnlyCurrent ==
  [][(swState = "installing")
     => /\ cacheKeys' \in {cacheKeys, Append(cacheKeys, CACHE_NAME)}
        /\ CACHE_NAME \in Range(cacheKeys) => cacheKeys' = cacheKeys
        /\ ipc # "open" => cacheKeys' = cacheKeys
        /\ DOMAIN store[CACHE_NAME] \subseteq DOMAIN store'[CACHE_NAME]
        /\ \A g \in Generations \ {CACHE_NAME} : store'[g] = store[g]]_vars

\* an install that created the current generation after the two old ones and
\* filled it, the old ones holding what they held
C23_Witness ==
  /\ swState = "installed"
  /\ cacheKeys = OldGenerations \o <<CACHE_NAME>>
  /\ \A i \in 1..Len(OldGenerations) : store[OldGenerations[i]] = OldEntries
  /\ StaticUrls \subseteq CurrentKeys
  /\ \E u \in TileUrls : u \in CurrentKeys


\* C24: during install a tile addition is started only once the whole batch
\* of static assets is in the current generation; when the batch failed, by
\* a fetch or by the write, no tile fetch was started and the current
\* generation holds no tile.
C24_TilesAfterStaticBatch ==
  /\ (\E u \in TileUrls : tileFetch[u] # NoResponse \/ tileAdd[u] # "none")
     => /\ addAllWrite = "ok"
        /\ \A u \in StaticUrls : u \in CurrentKeys /\ IsOk(addAllFetch[u])
  /\ (ipc = "done" /\ addAllWrite # "ok")
     => /\ installResult = "rejected"
        /\ \A u \in TileUrls :
             tileFetch[u] = NoResponse /\ tileAdd[u] = "none" /\ u \notin CurrentKeys

\* an install whose static assets were all fetched and whose batch write
\* failed: over, rejected, with no tile fetched
C24_Witness ==
  /\ ipc = "done"
  /\ addAllWrite = "failed"
  /\ \A u \in StaticUrls : IsOk(addAllFetch[u])
  /\ \A u \in TileUrls : tileFetch[u] = NoResponse


\* C25: the fallback image is never written: every tile entry of the current
\* generation is a response the network gave with status 200, at install or
\* on a refill, and an event answered with the fallback starts no write, so
\* that the tile is still missing for the next request.
C25_FallbackNeverStored ==
  /\ \A u \in CurrentKeys :
       IsTileRequest(u)
       => /\ store[CACHE_NAME][u] # FallbackResponse
          /\ \E b \in 1..MaxBody : store[CACHE_NAME][u] = NetResponse(u, 200, b)
  /\ \A e \in Events :
       (Done(e) /\ Tile(e) /\ events[e].result = FallbackResponse)
       => events[e].net = NetworkError /\ events[e].put = "none"

\* a tile answered with the fallback while another request for it, having
\* missed as well, is at the network
C25_Witness ==
  \E e, f \in Events :
    /\ Done(e) /\ Tile(e) /\ events[e].result = FallbackResponse
    /\ events[f].url = events[e].url /\ events[f].pc = "fetch"
    /\ events[f].netCalls = 1
    /\ events[e].url \notin CurrentKeys


C27_EverythingSettles ==
  /\ (swState = "installing") ~> (ipc = "done" /\ installResult \in {"resolved", "rejected"})
  /\ \A e \in Events :
       (events[e].pc \in {"open", "match", "fetch"})
         ~> (Done(e) /\ events[e].outcome \in {"resolved", "rejected"})
  /\ [][/\ \A e \in Events :
            (events[e].pc = "fetch" /\ events'[e] # events[e])
            => /\ events[e].net = Pending /\ events'[e].net # Pending
               /\ Done(e)'
        /\ \A u \in StaticUrls :
            (ipc = "addAll" /\ addAllFetch[u] = Pending /\ ipc' # "addAll")
            => \E v \in StaticUrls : addAllFetch[v] # Pending /\ ~IsOk(addAllFetch[v])
        /\ \A u \in TileUrls :
            (ipc = "tiles" /\ tileAdd[u] = "pending") => ipc' = "tiles"]_vars

\* two events answered, one with a rejection, one with a network response
\* whose write failed
C27_Witness ==
  /\ installResult = "resolved"
  /\ \E e, f \in Events :
       /\ Done(e) /\ events[e].outcome = "rejected"
       /\ Done(f) /\ events[f].outcome = "resolved" /\ events[f].put = "failed"


\* C28: the write of a refill is not awaited.  The event is answered with
\* the network response at the step its fetch gives status 200, the write
\* then pending; the answer stays what it is when the write completes and
\* when it fails, and a write that fails leaves the store as it was.
C28_WriteNotAwaited ==
  /\ [](\A e \in Events :
          (Tile(e) /\ events[e].net.status = 200)
          => /\ Done(e) /\ events[e].outcome = "resolved"
             /\ events[e].result = events[e].net
             /\ events[e].put \in {"pending", "stored", "failed"})
  /\ [][\A e \in Events :
          (events[e].put = "pending" /\ events'[e].put # "pending")
          => /\ events'[e].put \in {"stored", "failed"}
             /\ events'[e].result = events[e].result
             /\ events'[e].outcome = events[e].outcome
             /\ events'[e].pc = events[e].pc
             /\ events'[e].put = "failed" => store' = store]_vars

\* two refills of a tile that is not in the store, both answered with their
\* network responses: the write of one is pending, the write of the other failed
C28_Witness ==
  \E e, f \in Events :
    /\ Done(e) /\ Tile(e) /\ events[e].net.status = 200
    /\ events[e].put = "pending" /\ events[e].result = events[e].net
    /\ Done(f) /\ Tile(f) /\ events[f].net.status = 200
    /\ events[f].put = "failed" /\ events[f].result = events[f].net
    /\ events[e].url \notin CurrentKeys


(***************************************************************************)
(* The claim about the admin page, under SpecAdmin.                        *)
(***************************************************************************)
\* the addresses of the object at ref and of every object under it
RECURSIVE Reach(_, _)
Reach(h, ref) ==
  {ref} \cup UNION {Reach(h, h[ref].kids[i]) : i \in 1..Len(h[ref].kids)}

\* C29: the edits of the admin stay in the draft.  At login draftData
\* becomes a copy of the loaded data, equal to it in content and sharing no
\* object with it; a title, body or type edit changes one object, which
\* belongs to the draft; and once the data is loaded, _cachedData stays the
\* same object with the content it was loaded with.
C29_EditsStayInDraft ==
  [][/\ (draftData = Null /\ draftData' # Null)
        => /\ JsonStringify(heap', draftData') = JsonStringify(heap, cachedData)
           /\ Reach(heap', draftData') \cap Reach(heap', cachedData') = {}
     /\ (dataRef # Null /\ heap' # heap)
        => /\ Len(heap') = Len(heap)
           /\ dataRef \in Reach(heap, draftData)
           /\ \A a \in 1..Len(heap) : a # dataRef => heap'[a] = heap[a]
     /\ cachedData # Null
        => /\ cachedData' = cachedData
           /\ JsonStringify(heap', cachedData') = SiteData
           /\ \A a \in Reach(heap, cachedData) : heap'[a] = heap[a]]_vars

\* a draft whose category title and whose last topic, in title, body and
\* type, were edited, the loaded data being as it was loaded
C29_Witness ==
  /\ draftData # Null
  /\ JsonStringify(heap, cachedData) = SiteData
  /\ LET cat == JsonStringify(heap, draftData).kids[1]
         topic == cat.kids[1].kids[NTopics]
     IN  /\ cat.title = "new"
         /\ topic.title = "new" /\ topic.body_md = "new" /\ topic.type = "location"

====
